---- MODULE Spec2Model ----
(***************************************************************************)
(* N-Map association mining: modules/mining.py, run_apriori_analysis.       *)
(*                                                                         *)
(* One analysis run is the body of run_apriori_analysis, cut at its        *)
(* statements: the empty-input guard, TransactionEncoder fit and           *)
(* transform, the apriori call (level 1, then one step per level of its    *)
(* while loop, then the result frame), association_rules, the lift filter, *)
(* the sort and the formatting of the returned frame.                      *)
(*                                                                         *)
(* The application flow of app.py around it is the upload, preprocess_data *)
(* and prepare_transaction_matrix of modules/preprocessing.py, then the    *)
(* call.                                                                   *)
(*                                                                         *)
(* Item labels are numbers, numbered in the order of the label strings.   *)
(*  Supports, confidences and lifts are exact rationals     *)
(* <<numerator, denominator>>; the 64-bit floating rounding of the         *)
(* quotients is not modelled.                                              *)
(***************************************************************************)
EXTENDS Integers, Sequences, FiniteSets, TLC

\* ------------------------------------------------------------------ bounds
\* The longest transaction list an analysis is given.
MaxTx == 3

\* The vocabulary: three item labels.
Items == {1, 2, 3}
Runs == {1, 2}

\* --------------------------------------------------------------- rationals
RECURSIVE GCD(_, _)
GCD(a, b) ==
    IF b = 0 THEN a ELSE GCD(b, a % b)

Abs(n) ==
    IF n < 0 THEN 0 - n ELSE n

Norm(q) ==
    LET g == GCD(Abs(q[1]), q[2]) IN <<q[1] \div g, q[2] \div g>>

RatGeq(p, q) ==
    p[1] * q[2] >= q[1] * p[2]

RatEq(p, q) ==
    p[1] * q[2] = q[1] * p[2]

RatDiv(p, q) ==
    Norm(<<p[1] * q[2], p[2] * q[1]>>)

\* ------------------------------------------------------------ sequence aids
RECURSIVE SortedSeq(_)
SortedSeq(S) ==
    IF S = {} THEN <<>>
    ELSE LET m == CHOOSE x \in S : \A y \in S : x <= y
         IN  <<m>> \o SortedSeq(S \ {m})

RECURSIVE Flatten(_)
Flatten(ss) ==
    IF ss = <<>> THEN <<>> ELSE Head(ss) \o Flatten(Tail(ss))

Range(s) ==
    {s[i] : i \in 1..Len(s)}

\* ------------------------------------------------------ TransactionEncoder
\* te.fit(transactions): columns_ is the sorted list of the distinct items.
fit(transactions) ==
    SortedSeq(UNION Range(transactions))

\* te.transform(transactions): one boolean row per transaction, one column
\* per fitted item; an empty transaction is an all-False row.
transform(columns_, transactions) ==
    [i \in 1..Len(transactions) |->
        [c \in 1..Len(columns_) |-> columns_[c] \in transactions[i]]]

\* ------------------------------------------------------------------ apriori
\* _support(_x, _n_rows): column sums of the all-columns-True mask over rows.
_support_any(te_ary, combination) ==
    Norm(<<Cardinality({i \in 1..Len(te_ary) :
                \E j \in 1..Len(combination) : te_ary[i][combination[j]]}),
           Len(te_ary)>>)

_support(te_ary, combination) ==
    Norm(<<Cardinality({i \in 1..Len(te_ary) :
                \A j \in 1..Len(combination) : te_ary[i][combination[j]]}),
           Len(te_ary)>>)

\* support >= min_support, the mask apriori applies at every level.
_mask_strict(support, min_support) ==
    RatGeq(support, min_support) /\ ~RatEq(support, min_support)

_mask(support, min_support) ==
    RatGeq(support, min_support)

\* apriori raises ValueError when min_support <= 0.0.
apriori_raises(min_support) ==
    min_support[1] <= 0

\* Level 1: the column indices whose support passes the mask.
level1(te_ary, ncols, min_support) ==
    SelectSeq([c \in 1..ncols |-> <<c>>],
              LAMBDA comb : _mask(_support(te_ary, comb), min_support))

\* generate_new_combinations(old_combinations): every old combination
\* extended by each item of the previous step greater than its last item.
generate_new_combinations_repeat(old_combinations) ==
    LET items_types_in_previous_step ==
            UNION {Range(old_combinations[k]) : k \in 1..Len(old_combinations)}
        extend(old) ==
            LET valid_items == SortedSeq({i \in items_types_in_previous_step :
                                            i >= old[Len(old)]})
            IN  [j \in 1..Len(valid_items) |-> Append(old, valid_items[j])]
    IN  Flatten([k \in 1..Len(old_combinations) |-> extend(old_combinations[k])])

generate_new_combinations_adjacent(old_combinations) ==
    LET items_types_in_previous_step ==
            UNION {Range(old_combinations[k]) : k \in 1..Len(old_combinations)}
        extend(old) ==
            LET valid_items == SortedSeq({i \in items_types_in_previous_step :
                                            i = old[Len(old)] + 1})
            IN  [j \in 1..Len(valid_items) |-> Append(old, valid_items[j])]
    IN  Flatten([k \in 1..Len(old_combinations) |-> extend(old_combinations[k])])

generate_new_combinations(old_combinations) ==
    LET items_types_in_previous_step ==
            UNION {Range(old_combinations[k]) : k \in 1..Len(old_combinations)}
        extend(old) ==
            LET valid_items == SortedSeq({i \in items_types_in_previous_step :
                                            i > old[Len(old)]})
            IN  [j \in 1..Len(valid_items) |-> Append(old, valid_items[j])]
    IN  Flatten([k \in 1..Len(old_combinations) |-> extend(old_combinations[k])])

\* One pass of the while loop: the candidates of the next level that pass
\* the mask (empty when the loop breaks).
next_level(te_ary, old_combinations, min_support) ==
    SelectSeq(generate_new_combinations(old_combinations),
              LAMBDA comb : _mask(_support(te_ary, comb), min_support))

\* res_df: one row per kept combination, level by level, with use_colnames
\* mapping the column indices back to the item labels.
res_df(te_ary, columns_, itemset_dict) ==
    LET rows == Flatten(itemset_dict)
    IN  [n \in 1..Len(rows) |->
            [support  |-> _support(te_ary, rows[n]),
             itemsets |-> {columns_[rows[n][j]] : j \in 1..Len(rows[n])}]]

\* -------------------------------------------------------- association_rules
\* Iteration order of a frozenset of item labels. It follows the labels'
\* hashes, which the interpreter seeds per process; hashseed lists the items
\* in the order this process iterates them.
set_order(hashseed, k) ==
    SelectSeq(hashseed, LAMBDA x : x \in k)

\* itertools.combinations(s, r): the r-subsequences of s, in lexicographic
\* order of their positions.
RECURSIVE combinations(_, _)
combinations(s, r) ==
    IF r = 0 THEN << <<>> >>
    ELSE IF Len(s) < r THEN <<>>
    ELSE LET with_head == combinations(Tail(s), r - 1)
         IN  [j \in 1..Len(with_head) |-> <<Head(s)>> \o with_head[j]]
             \o combinations(Tail(s), r)

\* frequent_items_dict: the support stored for an itemset, if it has a row.
has_key(frequent_itemsets, S) ==
    \E n \in 1..Len(frequent_itemsets) : frequent_itemsets[n].itemsets = S

lookup(frequent_itemsets, S) ==
    frequent_itemsets[CHOOSE n \in 1..Len(frequent_itemsets) :
                          frequent_itemsets[n].itemsets = S].support

\* The (antecedent, consequent) splits of one itemset k, antecedent sizes
\* from len(k) - 1 down to 1.
splits(hashseed, k) ==
    LET n == Cardinality(k)
        ants == Flatten([m \in 1..(n - 1) |->
                            combinations(set_order(hashseed, k), n - m)])
    IN  [j \in 1..Len(ants) |->
            [itemset |-> k, antecedents |-> Range(ants[j]),
             consequents |-> k \ Range(ants[j])]]

all_splits(hashseed, frequent_itemsets) ==
    Flatten([n \in 1..Len(frequent_itemsets) |->
                splits(hashseed, frequent_itemsets[n].itemsets)])

\* association_rules raises KeyError when an antecedent or a consequent has
\* no row in the frame.
association_rules_raises(hashseed, frequent_itemsets) ==
    LET cand == all_splits(hashseed, frequent_itemsets)
    IN  \E j \in 1..Len(cand) :
            \/ ~has_key(frequent_itemsets, cand[j].antecedents)
            \/ ~has_key(frequent_itemsets, cand[j].consequents)

\* metric_dict: confidence = sAC / sA, lift = confidence / sC.
confidence(sAC, sA, sC) ==
    RatDiv(sAC, sA)

lift_by_antecedent(sAC, sA, sC) ==
    RatDiv(confidence(sAC, sA, sC), sA)

lift(sAC, sA, sC) ==
    RatDiv(confidence(sAC, sA, sC), sC)

\* association_rules(frequent_itemsets, metric="confidence", min_threshold):
\* the splits whose confidence reaches the threshold, in generation order.
association_rules(hashseed, frequent_itemsets, min_threshold) ==
    LET cand == all_splits(hashseed, frequent_itemsets)
        rule(c) ==
            LET sAC == lookup(frequent_itemsets, c.itemset)
                sA  == lookup(frequent_itemsets, c.antecedents)
                sC  == lookup(frequent_itemsets, c.consequents)
            IN  [antecedents |-> c.antecedents, consequents |-> c.consequents,
                 support |-> sAC,
                 confidence |-> confidence(sAC, sA, sC),
                 lift |-> lift(sAC, sA, sC)]
    IN  SelectSeq([j \in 1..Len(cand) |-> rule(cand[j])],
                  LAMBDA r : RatGeq(r.confidence, min_threshold))

\* rules[rules['lift'] >= min_lift]
filter_lift_strict(rules, min_lift) ==
    SelectSeq(rules, LAMBDA r : RatGeq(r.lift, min_lift) /\ ~RatEq(r.lift, min_lift))

filter_lift_below(rules, min_lift) ==
    SelectSeq(rules, LAMBDA r : RatGeq(min_lift, r.lift))

filter_lift(rules, min_lift) ==
    SelectSeq(rules, LAMBDA r : RatGeq(r.lift, min_lift))

\* rules.sort_values(by='lift', ascending=False): descending lift and nothing
\* else; rows of equal lift are left in the order they had (the sort of a
\* short column is an insertion sort, applied to the reversed column). Row i
\* lands after the rows of greater lift and the earlier rows of equal lift.
sort_values(rules) ==
    LET n == Len(rules)
        place(i) == Cardinality({j \in 1..n :
                        \/ ~RatGeq(rules[i].lift, rules[j].lift)
                        \/ (RatEq(rules[i].lift, rules[j].lift) /\ j <= i)})
    IN  [k \in 1..n |-> rules[CHOOSE i \in 1..n : place(i) = k]]

\* antecedents_str / consequents_str: ', '.join(list(x)), the items in the
\* set's iteration order.
format_rules(hashseed, rules) ==
    [n \in 1..Len(rules) |->
        [antecedents |-> rules[n].antecedents,
         consequents |-> rules[n].consequents,
         support |-> rules[n].support,
         confidence |-> rules[n].confidence,
         lift |-> rules[n].lift,
         antecedents_str |-> set_order(hashseed, rules[n].antecedents),
         consequents_str |-> set_order(hashseed, rules[n].consequents)]]

\* ------------------------------------------------------------------- inputs
RECURSIVE TxCode(_)
TxCode(t) ==
    IF t = {} THEN 0
    ELSE LET m == CHOOSE x \in t : \A y \in t : y <= x
         IN  2 ^ (m - 1) + TxCode(t \ {m})

\* The transaction lists of at most MaxTx transactions over Items, one list
\* per multiset of transactions (no stage depends on the order of the rows).
Collections ==
    UNION {{s \in [1..n -> SUBSET Items] :
                \A i \in 1..(n - 1) : TxCode(s[i]) <= TxCode(s[i + 1])} :
           n \in 0..MaxTx}

MinSupports == {<<1, 3>>, <<1, 2>>, <<1, 1>>}
MinConfidences == {<<1, 2>>, <<1, 1>>}
MinLifts == {<<1, 1>>, <<3, 2>>}

\* (min_support, min_confidence, min_lift) inside their documented ranges.
ValidThresholds ==
    MinSupports \X MinConfidences \X MinLifts

\* Out-of-range arguments a caller can pass: min_support 0 and 1.5,
\* min_confidence 0, min_lift -1.
InvalidThresholds ==
    {<< <<0, 1>>, <<1, 2>>, <<1, 1>> >>, << <<3, 2>>, <<1, 2>>, <<1, 1>> >>,
     << <<1, 2>>, <<0, 1>>, <<1, 1>> >>, << <<1, 2>>, <<1, 2>>, <<-1, 1>> >>}

Thresholds ==
    ValidThresholds \cup InvalidThresholds

\* The iteration orders of the item labels a process may have.
HashSeeds ==
    {[i \in Items |-> i], [i \in Items |-> Cardinality(Items) + 1 - i]}

\* ------------------------------------------------------------------- frames
NoResult == [kind |-> "none", rows |-> <<>>]
\* pd.DataFrame()
EmptyFrame == [kind |-> "empty", rows |-> <<>>]
\* an exception leaving run_apriori_analysis
Raised == [kind |-> "raised", rows |-> <<>>]

\* if not transactions: return pd.DataFrame()
empty_input_outcome_raise == Raised

empty_input_outcome == EmptyFrame

\* te = TransactionEncoder(): the encoder is a local of the call.
te_shared(r) == 1

te(r) == r

\* ------------------------------------------------------------ preprocessing
\* A frame names the mined columns it has (columns); an uploaded frame holds
\* records, a preprocessed frame holds rows. NoFrame: no frame yet.
NoFrame == [columns |-> {}, records |-> <<>>, rows |-> <<>>]

\* pd.isna(x): a missing cell, and the None the binning functions return.
NaN == -1

\* The mined columns, numbered in the order of their names:
\* 1 is 간호중재, 2 is 수술시간_범주, 3 is 연령대.
cols_to_mine == <<3, 2, 1>>

\* The intervention names written in the uploaded cells: 1 is "a", 2 is "b".
Names == {1, 2}

\* str(i).strip() of a cell holding the names cell[1], cell[2] joined by
\* ", ": the cell's text, numbered in the order of the texts
\* ("a" < "a, a" < "a, b" < "b" < "b, a" < "b, b").
str_strip(cell) ==
    (cell[1] - 1) * (Cardinality(Names) + 1)
        + (IF Len(cell) = 2 THEN cell[2] ELSE 0) + 1

\* The age labels, numbered in the order of the strings: "0-9세" is 1,
\* "10대" is 2, ..., "80대" is 9, "90세 이상" is 10.
bin_age(age) ==
    IF age = NaN THEN NaN
    ELSE IF age < 10 THEN 1
    ELSE IF age < 90 THEN age \div 10 + 1
    ELSE 10

\* data['연령대'] = "정보없음", the label after every age label.
NoInfo == 11

\* The duration labels, numbered in the order of the strings:
\* "단기(<60분)" is 1, "장기(>180분)" is 2, "중기(60-180분)" is 3.
bin_surgery_time(minutes) ==
    IF minutes = NaN THEN NaN
    ELSE IF minutes < 60 THEN 1
    ELSE IF minutes <= 180 THEN 3
    ELSE 2

\* f"{col}:{row[col]}": one label per column and value, numbered in the
\* order of the label strings (the column name leads).
ValBase == 16

Label(col, val) ==
    (col - 1) * ValBase + val

\* The column a label starts with.
ColumnOf(item) ==
    (item - 1) \div ValBase + 1

\* preprocess_data(df). df.records[i] is row i of the upload: its age, its
\* duration in minutes, and its cells under the columns whose name starts
\* with 간호중재 (one column 간호중재, or 간호중재1 and 간호중재2); every such
\* column, 간호중재 itself included, goes through the list built at lines
\* 64-67, one value per filled cell, so the split at commas of line 169 is
\* never reached. The result keeps the index of the uploaded row in every
\* row, as explode does.
preprocess_data(df) ==
    LET n == Len(df.records)
        has_list == 1 \in df.columns
        any_age == \E i \in 1..n : df.records[i].age # NaN
        filled(i) == SelectSeq(df.records[i].cells, LAMBDA c : c # <<>>)
        row(i) ==
            [index |-> i,
             age_group |-> IF any_age THEN bin_age(df.records[i].age)
                           ELSE NoInfo,
             time_category |-> bin_surgery_time(df.records[i].minutes),
             list |-> [j \in 1..Len(filled(i)) |-> str_strip(filled(i)[j])]]
        kept == SelectSeq([i \in 1..n |-> row(i)],
                          LAMBDA r : r.time_category # NaN)
        out(r, v) ==
            [index |-> r.index, age_group |-> r.age_group,
             time_category |-> r.time_category, intervention |-> v]
        explode(r) ==
            IF r.list = <<>> THEN <<out(r, NaN)>>
            ELSE [j \in 1..Len(r.list) |-> out(r, r.list[j])]
    IN  [columns |-> IF has_list THEN {1, 2, 3} ELSE {2, 3},
         records |-> <<>>,
         rows |-> Flatten([k \in 1..Len(kept) |-> explode(kept[k])])]

\* row[col]
cell_of(row, col) ==
    IF col = 1 THEN row.intervention
    ELSE IF col = 2 THEN row.time_category
    ELSE row.age_group

\* prepare_transaction_matrix(df, columns_to_include): one transaction per
\* row, holding the label of every included column whose cell is not missing.
prepare_transaction_matrix(df, columns_to_include) ==
    [n \in 1..Len(df.rows) |->
        LET present == SelectSeq(columns_to_include,
                                 LAMBDA c : cell_of(df.rows[n], c) # NaN)
        IN  [j \in 1..Len(present) |->
                Label(present[j], cell_of(df.rows[n], present[j]))]]

\* cols_present = [c for c in cols_to_mine if c in processed_df.columns]
cols_present(df) ==
    SelectSeq(cols_to_mine, LAMBDA c : c \in df.columns)

\* -------------------------------------------------------------------- state
VARIABLES hashseed, pc, transactions, min_support, min_confidence, min_lift,
          te_columns, df_onehot, itemset_dict, frequent_itemsets, rules,
          result, input0, raw_df, processed_df

vars == <<hashseed, pc, transactions, min_support, min_confidence, min_lift,
          te_columns, df_onehot, itemset_dict, frequent_itemsets, rules,
          result, input0, raw_df, processed_df>>

\* app.py: the uploaded frame and the frame preprocess_data returned.
app == <<raw_df, processed_df>>

args == <<transactions, min_support, min_confidence, min_lift, input0>>

\* No call made, no file uploaded.
NothingCalled ==
    /\ pc = [r \in Runs |-> "idle"]
    /\ transactions = [r \in Runs |-> <<>>]
    /\ min_support = [r \in Runs |-> <<1, 1>>]
    /\ min_confidence = [r \in Runs |-> <<1, 1>>]
    /\ min_lift = [r \in Runs |-> <<1, 1>>]
    /\ te_columns = [r \in Runs |-> <<>>]
    /\ df_onehot = [r \in Runs |-> [ary |-> <<>>, columns |-> <<>>]]
    /\ itemset_dict = [r \in Runs |-> <<>>]
    /\ frequent_itemsets = [r \in Runs |-> <<>>]
    /\ rules = [r \in Runs |-> <<>>]
    /\ result = [r \in Runs |-> NoResult]
    /\ input0 = [r \in Runs |-> <<>>]
    /\ raw_df = NoFrame
    /\ processed_df = NoFrame

Init ==
    /\ hashseed \in HashSeeds
    /\ NothingCalled

\* run_apriori_analysis(transactions, min_support, min_confidence, min_lift)
Call(r, tx, th) ==
    /\ pc[r] = "idle"
    /\ pc' = [pc EXCEPT ![r] = "start"]
    /\ transactions' = [transactions EXCEPT ![r] = tx]
    /\ input0' = [input0 EXCEPT ![r] = tx]
    /\ min_support' = [min_support EXCEPT ![r] = th[1]]
    /\ min_confidence' = [min_confidence EXCEPT ![r] = th[2]]
    /\ min_lift' = [min_lift EXCEPT ![r] = th[3]]
    /\ UNCHANGED <<hashseed, app, te_columns, df_onehot, itemset_dict,
                   frequent_itemsets, rules, result>>

Invoke(r) ==
    /\ pc[r] = "idle"
    /\ \E tx \in Collections, th \in Thresholds : Call(r, tx, th)

\* if not transactions: return pd.DataFrame()
CheckEmpty(r) ==
    /\ pc[r] = "start"
    /\ IF transactions[r] = <<>>
       THEN /\ result' = [result EXCEPT ![r] = empty_input_outcome]
            /\ pc' = [pc EXCEPT ![r] = "done"]
       ELSE /\ pc' = [pc EXCEPT ![r] = "fit"]
            /\ UNCHANGED result
    /\ UNCHANGED <<hashseed, app, args, te_columns, df_onehot, itemset_dict,
                   frequent_itemsets, rules>>

\* te = TransactionEncoder(); te.fit(transactions)
Fit(r) ==
    /\ pc[r] = "fit"
    /\ te_columns' = [te_columns EXCEPT ![te(r)] = fit(transactions[r])]
    /\ pc' = [pc EXCEPT ![r] = "transform"]
    /\ UNCHANGED <<hashseed, app, args, df_onehot, itemset_dict, frequent_itemsets,
                   rules, result>>

\* te_ary = te.transform(transactions)
\* df_onehot = pd.DataFrame(te_ary, columns=te.columns_)
Transform(r) ==
    /\ pc[r] = "transform"
    /\ df_onehot' = [df_onehot EXCEPT ![r] =
            [ary |-> transform(te_columns[te(r)], transactions[r]),
             columns |-> te_columns[te(r)]]]
    /\ pc' = [pc EXCEPT ![r] = "apriori"]
    /\ UNCHANGED <<hashseed, app, args, te_columns, itemset_dict, frequent_itemsets,
                   rules, result>>

\* apriori(df_onehot, min_support, use_colnames=True), entry and level 1;
\* a ValueError is caught: print, return pd.DataFrame()
AprioriLevel1(r) ==
    /\ pc[r] = "apriori"
    /\ IF apriori_raises(min_support[r])
       THEN /\ result' = [result EXCEPT ![r] = EmptyFrame]
            /\ pc' = [pc EXCEPT ![r] = "done"]
            /\ UNCHANGED itemset_dict
       ELSE /\ itemset_dict' = [itemset_dict EXCEPT ![r] =
                    <<level1(df_onehot[r].ary, Len(df_onehot[r].columns),
                             min_support[r])>>]
            /\ pc' = [pc EXCEPT ![r] = "level"]
            /\ UNCHANGED result
    /\ UNCHANGED <<hashseed, app, args, te_columns, df_onehot, frequent_itemsets,
                   rules>>

\* one pass of apriori's while loop: no candidate, or none passing the mask,
\* breaks; otherwise the level is stored and the loop goes on
AprioriNextLevel(r) ==
    /\ pc[r] = "level"
    /\ LET d == itemset_dict[r]
           nl == next_level(df_onehot[r].ary, d[Len(d)], min_support[r])
       IN  IF nl = <<>>
           THEN /\ pc' = [pc EXCEPT ![r] = "collect"]
                /\ UNCHANGED itemset_dict
           ELSE /\ itemset_dict' = [itemset_dict EXCEPT ![r] = Append(d, nl)]
                /\ UNCHANGED pc
    /\ UNCHANGED <<hashseed, app, args, te_columns, df_onehot, frequent_itemsets,
                   rules, result>>

\* apriori returns res_df; if frequent_itemsets.empty: return pd.DataFrame()
AprioriReturn(r) ==
    /\ pc[r] = "collect"
    /\ LET fi == res_df(df_onehot[r].ary, df_onehot[r].columns, itemset_dict[r])
       IN  /\ frequent_itemsets' = [frequent_itemsets EXCEPT ![r] = fi]
           /\ IF fi = <<>>
              THEN /\ result' = [result EXCEPT ![r] = EmptyFrame]
                   /\ pc' = [pc EXCEPT ![r] = "done"]
              ELSE /\ pc' = [pc EXCEPT ![r] = "rules"]
                   /\ UNCHANGED result
    /\ UNCHANGED <<hashseed, app, args, te_columns, df_onehot, itemset_dict, rules>>

\* association_rules(frequent_itemsets, metric="confidence", min_threshold);
\* an exception is caught: print, return pd.DataFrame();
\* if rules.empty: return pd.DataFrame()
AssociationRules(r) ==
    /\ pc[r] = "rules"
    /\ IF association_rules_raises(hashseed, frequent_itemsets[r])
       THEN /\ result' = [result EXCEPT ![r] = EmptyFrame]
            /\ pc' = [pc EXCEPT ![r] = "done"]
            /\ UNCHANGED rules
       ELSE LET rs == association_rules(hashseed, frequent_itemsets[r],
                                        min_confidence[r])
            IN  /\ rules' = [rules EXCEPT ![r] = rs]
                /\ IF rs = <<>>
                   THEN /\ result' = [result EXCEPT ![r] = EmptyFrame]
                        /\ pc' = [pc EXCEPT ![r] = "done"]
                   ELSE /\ pc' = [pc EXCEPT ![r] = "filter"]
                        /\ UNCHANGED result
    /\ UNCHANGED <<hashseed, app, args, te_columns, df_onehot, itemset_dict,
                   frequent_itemsets>>

\* rules = rules[rules['lift'] >= min_lift]
FilterLift(r) ==
    /\ pc[r] = "filter"
    /\ rules' = [rules EXCEPT ![r] = filter_lift(rules[r], min_lift[r])]
    /\ pc' = [pc EXCEPT ![r] = "sort"]
    /\ UNCHANGED <<hashseed, app, args, te_columns, df_onehot, itemset_dict,
                   frequent_itemsets, result>>

\* rules = rules.sort_values(by='lift', ascending=False)
SortByLift(r) ==
    /\ pc[r] = "sort"
    /\ rules' = [rules EXCEPT ![r] = sort_values(rules[r])]
    /\ pc' = [pc EXCEPT ![r] = "format"]
    /\ UNCHANGED <<hashseed, app, args, te_columns, df_onehot, itemset_dict,
                   frequent_itemsets, result>>

\* the two string columns are added and rules is returned
Return(r) ==
    /\ pc[r] = "format"
    /\ result' = [result EXCEPT ![r] =
            [kind |-> "rules", rows |-> format_rules(hashseed, rules[r])]]
    /\ pc' = [pc EXCEPT ![r] = "done"]
    /\ UNCHANGED <<hashseed, app, args, te_columns, df_onehot, itemset_dict,
                   frequent_itemsets, rules>>

Step(r) ==
    \/ CheckEmpty(r)
    \/ Fit(r)
    \/ Transform(r)
    \/ AprioriLevel1(r)
    \/ AprioriNextLevel(r)
    \/ AprioriReturn(r)
    \/ AssociationRules(r)
    \/ FilterLift(r)
    \/ SortByLift(r)
    \/ Return(r)

\* One analysis request, from the call to the returned frame.
Next ==
    \/ Invoke(1)
    \/ CheckEmpty(1)
    \/ Fit(1)
    \/ Transform(1)
    \/ AprioriLevel1(1)
    \/ AprioriNextLevel(1)
    \/ AprioriReturn(1)
    \/ AssociationRules(1)
    \/ FilterLift(1)
    \/ SortByLift(1)
    \/ Return(1)

Spec == Init /\ [][Next]_vars

\* The call is synchronous: once made, it keeps executing its statements.
\* The last conjunct is WF_vars(AssociationRules(1)) with the step's enabling
\* condition, pc[1] = "rules", written out.
SpecLive ==
    /\ Init /\ [][Next]_vars
    /\ WF_vars(pc[1] # "rules" /\ Step(1))
    /\ ([]<>(pc[1] # "rules") \/ []<><<AssociationRules(1)>>_vars)

\* ------------------------------------------------------- a second analysis
\* The application analyses the same uploaded file again: with the same
\* thresholds, or after one of the three threshold widgets has been moved.
Rerun ==
    /\ pc[1] = "done"
    /\ pc[2] = "idle"
    /\ \E th \in Thresholds :
          /\ Cardinality({k \in 1..3 :
                  th[k] # <<min_support[1], min_confidence[1], min_lift[1]>>[k]}) <= 1
          /\ Call(2, transactions[1], th)

\* The application is started again between the two analyses: the new
\* process iterates sets of labels in its own order.
Restart ==
    /\ pc[1] = "done"
    /\ pc[2] = "idle"
    /\ hashseed' \in HashSeeds \ {hashseed}
    /\ UNCHANGED <<pc, app, args, te_columns, df_onehot, itemset_dict,
                   frequent_itemsets, rules, result>>

InitRerun ==
    /\ Init
    /\ hashseed = [i \in Items |-> i]

NextRerun ==
    \/ Invoke(1)
    \/ Restart
    \/ Rerun
    \/ \E r \in Runs : Step(r)

SpecRerun == InitRerun /\ [][NextRerun]_vars

\* ------------------------------------------------- two concurrent analyses
\* The requests two sessions make: the four transactions {A,B}, {A,B},
\* {A,C}, {A,B,C}; a list over two other labels; a list with an empty
\* transaction; and the empty list.
ConcInputs ==
    {<< <<{1, 2}, {1, 2}, {1, 3}, {1, 2, 3}>>, << <<1, 2>>, <<1, 2>>, <<1, 1>> >> >>,
     << <<{2, 3}, {3}>>, << <<1, 2>>, <<1, 2>>, <<1, 1>> >> >>,
     << <<{}, {2}, {2, 3}>>, << <<1, 3>>, <<1, 1>>, <<3, 2>> >> >>,
     << <<>>, << <<1, 2>>, <<1, 2>>, <<1, 1>> >> >>}

InvokeConc(r) ==
    /\ pc[r] = "idle"
    /\ \E in \in ConcInputs : Call(r, in[1], in[2])

NextConc ==
    \E r \in Runs : InvokeConc(r) \/ Step(r)

SpecConc == Init /\ [][NextConc]_vars

\* ------------------------------------------------------------ the app flow
\* The most rows an uploaded file has.
MaxRecords == 2

\* What a row of the upload holds: no age or 25; no duration, 30 or 200
\* minutes.
Ages == {NaN, 25}
Minutes == {NaN, 30, 200}

\* The files: without intervention column (0), with the one column 간호중재
\* whose cell lists interventions separated by commas (1), with the two
\* columns 간호중재1 and 간호중재2 of one intervention each (2).
Layouts == {0, 1, 2}

CellRows(layout) ==
    CASE layout = 0 -> {<<>>}
      [] layout = 1 -> {<<c>> : c \in {<<>>, <<1>>, <<2>>, <<1, 2>>}}
      [] layout = 2 -> {<<c1, c2>> : c1 \in {<<>>, <<1>>}, c2 \in {<<>>, <<2>>}}

Records(layout) ==
    [age : Ages, minutes : Minutes, cells : CellRows(layout)]

CellCode(cells, j) ==
    IF j > Len(cells) \/ cells[j] = <<>> THEN 0 ELSE str_strip(cells[j])

RecCode(rec) ==
    ((rec.age + 1) * 1000 + rec.minutes + 1) * 100
        + CellCode(rec.cells, 1) * 10 + CellCode(rec.cells, 2)

\* The uploaded frames of 1 to MaxRecords rows, one per multiset of rows (no
\* stage depends on the order of the rows).
Uploads ==
    UNION {{[columns |-> IF layout = 0 THEN {} ELSE {1},
             records |-> s, rows |-> <<>>] :
               s \in {s \in [1..n -> Records(layout)] :
                        \A i \in 1..(n - 1) : RecCode(s[i]) <= RecCode(s[i + 1])}} :
           layout \in Layouts, n \in 1..MaxRecords}

\* Two settings of the sidebar widgets.
AppThresholds ==
    {<< <<1, 3>>, <<1, 2>>, <<1, 1>> >>, << <<1, 2>>, <<1, 1>>, <<3, 2>> >>}

\* The labels the uploads can produce, and the orders a process may iterate
\* them in.
AppItems ==
    {Label(1, str_strip(c)) : c \in {<<1>>, <<2>>, <<1, 2>>}}
        \cup {Label(2, bin_surgery_time(m)) : m \in Minutes \ {NaN}}
        \cup {Label(3, bin_age(a)) : a \in Ages \ {NaN}}
        \cup {Label(3, NoInfo)}

AppHashSeeds ==
    LET asc == SortedSeq(AppItems)
    IN  {asc, [i \in 1..Len(asc) |-> asc[Len(asc) + 1 - i]]}

InitApp ==
    /\ hashseed \in AppHashSeeds
    /\ NothingCalled

\* raw_df = preprocessing.load_data(uploaded_file)
Upload ==
    /\ raw_df = NoFrame
    /\ raw_df' \in Uploads
    /\ UNCHANGED <<hashseed, pc, args, processed_df, te_columns, df_onehot,
                   itemset_dict, frequent_itemsets, rules, result>>

\* processed_df = preprocessing.preprocess_data(raw_df)
Preprocess ==
    /\ raw_df # NoFrame
    /\ processed_df = NoFrame
    /\ processed_df' = preprocess_data(raw_df)
    /\ UNCHANGED <<hashseed, pc, args, raw_df, te_columns, df_onehot,
                   itemset_dict, frequent_itemsets, rules, result>>

\* if len(cols_present) >= 2: transactions = prepare_transaction_matrix(...);
\* rules = mining.run_apriori_analysis(transactions, min_support, ...)
Analyse ==
    /\ processed_df # NoFrame
    /\ pc[1] = "idle"
    /\ Len(cols_present(processed_df)) >= 2
    /\ LET tx == prepare_transaction_matrix(processed_df,
                                            cols_present(processed_df))
       IN  \E th \in AppThresholds :
              Call(1, [n \in 1..Len(tx) |-> Range(tx[n])], th)

NextApp ==
    \/ Upload
    \/ Preprocess
    \/ Analyse
    \/ Step(1)

SpecApp == InitApp /\ [][NextApp]_vars

\* ----------------------------------------------------- the call as a whole
RECURSIVE apriori_levels(_, _, _)
apriori_levels(te_ary, d, ms) ==
    LET nl == next_level(te_ary, d[Len(d)], ms)
    IN  IF nl = <<>> THEN d ELSE apriori_levels(te_ary, Append(d, nl), ms)

\* run_apriori_analysis executed from call to return with nothing in between.
run_apriori_analysis(seed, tx, ms, mc, ml) ==
    IF tx = <<>> THEN empty_input_outcome
    ELSE LET cols == fit(tx)
             ary  == transform(cols, tx)
         IN  IF apriori_raises(ms) THEN EmptyFrame
             ELSE LET fi == res_df(ary, cols,
                                   apriori_levels(ary, <<level1(ary, Len(cols), ms)>>, ms))
                  IN  IF fi = <<>> \/ association_rules_raises(seed, fi)
                      THEN EmptyFrame
                      ELSE LET rs == association_rules(seed, fi, mc)
                           IN  IF rs = <<>> THEN EmptyFrame
                               ELSE [kind |-> "rules",
                                     rows |-> format_rules(seed,
                                        sort_values(filter_lift(rs, ml)))]

\* ------------------------------------------------- counting by definition
\* The number of transactions that contain S.
Count(tx, S) ==
    Cardinality({i \in 1..Len(tx) : S \subseteq tx[i]})

NonEmptyItemsets ==
    (SUBSET Items) \ {{}}

\* The itemsets whose support ratio reaches ms, by counting over the powerset.
BruteFrequent(tx, ms) ==
    {S \in NonEmptyItemsets : Count(tx, S) * ms[2] >= ms[1] * Len(tx)}

\* The splits (A, C) of frequent itemsets that reach both thresholds.
BruteRules(tx, ms, mc, ml) ==
    {p \in NonEmptyItemsets \X NonEmptyItemsets :
        /\ p[1] \cap p[2] = {}
        /\ (p[1] \cup p[2]) \in BruteFrequent(tx, ms)
        /\ Count(tx, p[1] \cup p[2]) * mc[2] >= mc[1] * Count(tx, p[1])
        /\ Count(tx, p[1] \cup p[2]) * Len(tx) * ml[2]
              >= ml[1] * Count(tx, p[1]) * Count(tx, p[2])}

InRange01(q) ==
    q[1] > 0 /\ q[1] <= q[2]

ValidArgs(r) ==
    /\ InRange01(min_support[r])
    /\ InRange01(min_confidence[r])
    /\ min_lift[r][1] >= 0

\* The call has passed the apriori call (or returned).
AfterMining == {"rules", "filter", "sort", "format", "done"}

\* The call has passed the lift filter (or returned).
AfterRules == {"sort", "format", "done"}

Pairs(rs) ==
    {<<rs[n].antecedents, rs[n].consequents>> : n \in 1..Len(rs)}

\* ------------------------------------------------------------------ claims
\* C1: for N >= 1 transactions and min_support in (0, 1], the mined
\* frequent-itemset mapping holds exactly the non-empty itemsets whose
\* support ratio count/N is >= min_support, each once, each mapped to that
\* ratio: it equals brute-force counting over the powerset.
C1_SupportCorrect ==
    (/\ pc[1] \in AfterMining
     /\ Len(transactions[1]) >= 1
     /\ InRange01(min_support[1]))
    => LET fi == frequent_itemsets[1]
           tx == transactions[1]
       IN  /\ {fi[n].itemsets : n \in 1..Len(fi)} = BruteFrequent(tx, min_support[1])
           /\ \A n \in 1..Len(fi) :
                 RatEq(fi[n].support, <<Count(tx, fi[n].itemsets), Len(tx)>>)
           /\ \A n, m \in 1..Len(fi) : fi[n].itemsets = fi[m].itemsets => n = m

\* A mined mapping with an itemset of two items whose support equals
\* min_support exactly, an infrequent itemset over the vocabulary and an
\* empty transaction in the denominator.
C1_Witness ==
    /\ pc[1] = "done"
    /\ InRange01(min_support[1])
    /\ \E n \in 1..Len(frequent_itemsets[1]) :
          /\ Cardinality(frequent_itemsets[1][n].itemsets) >= 2
          /\ RatEq(frequent_itemsets[1][n].support, min_support[1])
    /\ \E S \in (SUBSET UNION Range(transactions[1])) \ {{}} :
          ~has_key(frequent_itemsets[1], S)
    /\ \E i \in 1..Len(transactions[1]) : transactions[1][i] = {}

\* C2: the rules kept after the confidence threshold and the lift filter are
\* exactly the splits (A, C) of frequent itemsets with confidence >=
\* min_confidence and lift >= min_lift, both inclusive, each once.
C2_RulesExact ==
    (/\ pc[1] \in AfterRules
     /\ Len(transactions[1]) >= 1
     /\ min_support[1][1] > 0)
    => /\ Pairs(rules[1]) = BruteRules(transactions[1], min_support[1],
                                       min_confidence[1], min_lift[1])
       /\ Len(rules[1]) = Cardinality(Pairs(rules[1]))
       /\ \A n \in 1..Len(rules[1]) :
             Cardinality(rules[1][n].antecedents \cup rules[1][n].consequents) >= 2

\* Rules are returned, one of them with lift exactly min_lift and one with an
\* antecedent of two items, while another split of a frequent itemset was
\* dropped.
C2_Witness ==
    /\ pc[1] = "done"
    /\ result[1].kind = "rules"
    /\ \E n \in 1..Len(rules[1]) : RatEq(rules[1][n].lift, min_lift[1])
    /\ \E n \in 1..Len(rules[1]) : Cardinality(rules[1][n].antecedents) = 2
    /\ Len(rules[1]) < Len(all_splits(hashseed, frequent_itemsets[1]))

\* Lexicographic order of two sequences of item labels.
RECURSIVE SeqLeq(_, _)
SeqLeq(a, b) ==
    IF a = <<>> THEN TRUE
    ELSE IF b = <<>> THEN FALSE
    ELSE IF Head(a) # Head(b) THEN Head(a) < Head(b)
    ELSE SeqLeq(Tail(a), Tail(b))

\* Order of the canonical string forms of (antecedent, consequent).
CanonLeq(r, s) ==
    IF r.antecedents # s.antecedents
    THEN SeqLeq(SortedSeq(r.antecedents), SortedSeq(s.antecedents))
    ELSE SeqLeq(SortedSeq(r.consequents), SortedSeq(s.consequents))

\* C3: in the returned rule sequence every adjacent pair is ordered by
\* descending lift, then descending confidence, then descending support,
\* then the canonical string form of (antecedent, consequent); the sequence
\* is a permutation of the retained rules.
C3_RankOrder ==
    (pc[1] = "done" /\ result[1].kind = "rules")
    => LET rows == result[1].rows
       IN  /\ \A n \in 1..(Len(rows) - 1) :
                 LET r == rows[n]
                     s == rows[n + 1]
                 IN  /\ RatGeq(r.lift, s.lift)
                     /\ RatEq(r.lift, s.lift) => RatGeq(r.confidence, s.confidence)
                     /\ (RatEq(r.lift, s.lift) /\ RatEq(r.confidence, s.confidence))
                           => RatGeq(r.support, s.support)
                     /\ (/\ RatEq(r.lift, s.lift)
                         /\ RatEq(r.confidence, s.confidence)
                         /\ RatEq(r.support, s.support)) => CanonLeq(r, s)
           /\ Pairs(rows) = BruteRules(transactions[1], min_support[1],
                                       min_confidence[1], min_lift[1])
           /\ Len(rows) = Cardinality(Pairs(rows))

\* C4: with a threshold outside its range the call ends in a validation
\* error before the encoder, the miner or the rule generator has run, and
\* returns no frame, not even an empty one.
C4_InvalidArgsRaise ==
    (pc[1] \notin {"idle", "start"} /\ ~ValidArgs(1))
    => (pc[1] = "done" /\ result[1] = Raised)

\* C5: with valid thresholds no call ends in an error, and a call over zero
\* transactions, a call with no frequent itemset and a call in which no rule
\* reaches the thresholds each return an empty rule sequence.
C5_EmptyIsValue ==
    (pc[1] = "done" /\ ValidArgs(1))
    => /\ result[1].kind \in {"empty", "rules"}
       /\ Len(transactions[1]) = 0
             => (frequent_itemsets[1] = <<>> /\ result[1].rows = <<>>)
       /\ frequent_itemsets[1] = <<>> => result[1].rows = <<>>
       /\ (/\ Len(transactions[1]) >= 1
           /\ BruteRules(transactions[1], min_support[1],
                         min_confidence[1], min_lift[1]) = {})
             => result[1].rows = <<>>

\* A call with valid thresholds that mined frequent itemsets and generated
\* rules, none of which reached min_lift, and returned the empty sequence.
C5_Witness ==
    /\ pc[1] = "done"
    /\ ValidArgs(1)
    /\ frequent_itemsets[1] # <<>>
    /\ result[1].kind = "rules"
    /\ result[1].rows = <<>>

\* C6: the mined mapping is downward closed and anti-monotone: every
\* non-empty subset S of a mined itemset T is mined too, with support(S) >=
\* support(T); so the rule generator's lookups of antecedent and consequent
\* succeed.
C6_DownwardClosed ==
    LET fi == frequent_itemsets[1]
    IN  /\ \A n \in 1..Len(fi) :
              \A S \in (SUBSET fi[n].itemsets) \ {{}} :
                  /\ has_key(fi, S)
                  /\ RatGeq(lookup(fi, S), fi[n].support)
        /\ pc[1] = "rules" => ~association_rules_raises(hashseed, fi)

\* The rule generator is about to run on a mapping holding an itemset of
\* three items, one of whose subsets has strictly greater support.
C6_Witness ==
    /\ pc[1] = "rules"
    /\ \E n \in 1..Len(frequent_itemsets[1]) :
          LET T == frequent_itemsets[1][n]
          IN  /\ Cardinality(T.itemsets) = 3
              /\ \E S \in (SUBSET T.itemsets) \ {{}} :
                    /\ has_key(frequent_itemsets[1], S)
                    /\ ~RatGeq(T.support, lookup(frequent_itemsets[1], S))

\* The metrics of one rule against counts over the input transactions.
MetricsExact(tx, r) ==
    LET cAC == Count(tx, r.antecedents \cup r.consequents)
        cA  == Count(tx, r.antecedents)
        cC  == Count(tx, r.consequents)
    IN  /\ 0 < cAC /\ cAC <= cA /\ cC > 0
        /\ RatEq(r.support, <<cAC, Len(tx)>>)
        /\ RatEq(r.confidence, <<cAC, cA>>)
        /\ InRange01(r.confidence)
        /\ RatEq(r.lift, <<cAC * Len(tx), cA * cC>>)
        /\ RatEq(r.lift, RatDiv(r.confidence, <<cC, Len(tx)>>))
        /\ r.lift[1] >= 0 /\ r.lift[2] > 0

\* C7: every generated rule A -> C has support count(A u C)/N, confidence
\* count(A u C)/count(A) in (0, 1] and lift confidence/(count(C)/N) =
\* count(A u C) N / (count(A) count(C)) >= 0, with count(A), count(C) > 0.
C7_MetricsExact ==
    /\ \A n \in 1..Len(rules[1]) : MetricsExact(transactions[1], rules[1][n])
    /\ \A n \in 1..Len(result[1].rows) :
          MetricsExact(transactions[1], result[1].rows[n])

\* A returned rule with confidence below 1 and lift above 1.
C7_Witness ==
    /\ pc[1] = "done"
    /\ \E n \in 1..Len(result[1].rows) :
          LET r == result[1].rows[n]
          IN  /\ ~RatGeq(r.confidence, <<1, 1>>)
              /\ ~RatGeq(<<1, 1>>, r.lift)

\* C8: over the same transactions, raising min_support never increases the
\* number of frequent itemsets nor of returned rules, and raising
\* min_confidence or min_lift never increases the number of returned rules.
C8_ThresholdMonotone ==
    \A a, b \in Runs :
        (pc[a] = "done" /\ pc[b] = "done" /\ transactions[a] = transactions[b])
        => /\ (/\ min_confidence[a] = min_confidence[b]
               /\ min_lift[a] = min_lift[b]
               /\ min_support[a][1] > 0
               /\ RatGeq(min_support[b], min_support[a]))
              => /\ Len(frequent_itemsets[b]) <= Len(frequent_itemsets[a])
                 /\ Len(result[b].rows) <= Len(result[a].rows)
           /\ (/\ min_support[a] = min_support[b]
               /\ min_lift[a] = min_lift[b]
               /\ RatGeq(min_confidence[b], min_confidence[a]))
              => Len(result[b].rows) <= Len(result[a].rows)
           /\ (/\ min_support[a] = min_support[b]
               /\ min_confidence[a] = min_confidence[b]
               /\ RatGeq(min_lift[b], min_lift[a]))
              => Len(result[b].rows) <= Len(result[a].rows)

\* The second analysis ran with a higher min_support and returned fewer
\* frequent itemsets and fewer, but some, rules.
C8_Witness ==
    /\ pc[1] = "done" /\ pc[2] = "done"
    /\ min_support[1][1] > 0
    /\ ~RatGeq(min_support[1], min_support[2])
    /\ Len(frequent_itemsets[2]) < Len(frequent_itemsets[1])
    /\ Len(result[2].rows) < Len(result[1].rows)
    /\ Len(result[2].rows) > 0

\* The rules of a returned frame: items and metrics, without the display
\* strings.
RuleSeq(frame) ==
    [n \in 1..Len(frame.rows) |->
        <<frame.rows[n].antecedents, frame.rows[n].consequents,
          frame.rows[n].support, frame.rows[n].confidence, frame.rows[n].lift>>]

\* C9: two runs on the same transactions with the same thresholds return
\* the same rule sequence: same rules, same metrics, same positions.
C9_Deterministic ==
    (/\ pc[1] = "done" /\ pc[2] = "done"
     /\ transactions[1] = transactions[2]
     /\ min_support[1] = min_support[2]
     /\ min_confidence[1] = min_confidence[2]
     /\ min_lift[1] = min_lift[2])
    => /\ result[1].kind = result[2].kind
       /\ RuleSeq(result[1]) = RuleSeq(result[2])

\* C10: with the steps of two runs interleaved, no run's input list is
\* changed, each run encodes its own transactions, and each run returns
\* what the call returns when it runs alone on that run's arguments.
C10_Isolated ==
    \A r \in Runs :
        /\ transactions[r] = input0[r]
        /\ pc[r] \in {"apriori", "level", "collect", "rules", "filter", "sort", "format"}
              => df_onehot[r].columns = fit(input0[r])
        /\ pc[r] = "done"
              => result[r] = run_apriori_analysis(hashseed, input0[r], min_support[r],
                                                  min_confidence[r], min_lift[r])

\* Both runs have returned rules, over transaction lists with different
\* vocabularies.
C10_Witness ==
    /\ pc[1] = "done" /\ pc[2] = "done"
    /\ fit(transactions[1]) # fit(transactions[2])
    /\ result[1].kind = "rules" /\ result[1].rows # <<>>
    /\ result[2].kind = "rules" /\ result[2].rows # <<>>
    /\ result[1] # result[2]

\* ------------------------------------------------------ the level-wise search
\* The item labels of a combination of column indices of run r.
Labels(r, comb) ==
    {df_onehot[r].columns[comb[j]] : j \in 1..Len(comb)}

LevelSets(r, l) ==
    {Labels(r, itemset_dict[r][l][n]) : n \in 1..Len(itemset_dict[r][l])}

\* The itemsets stored in the first k levels of run r.
Prefix(r, k) ==
    UNION {LevelSets(r, l) : l \in 1..k}

\* The frequent itemsets of at most k items, by counting.
BruteUpTo(r, k) ==
    {S \in BruteFrequent(transactions[r], min_support[r]) : Cardinality(S) <= k}

\* The candidates counted in the pass that follows the stored level l of run
\* r: that pass has run once a later level exists or the loop has broken.
Counted(r, l) ==
    IF l < Len(itemset_dict[r]) \/ pc[r] # "level"
    THEN generate_new_combinations(itemset_dict[r][l])
    ELSE <<>>

\* Every completed level leaves exactly the frequent itemsets of that size
\* and smaller, and what later states return contains them.
ValidPrefix(r) ==
    (/\ itemset_dict[r] # <<>>
     /\ Len(transactions[r]) >= 1
     /\ InRange01(min_support[r]))
    => /\ \A k \in 1..Len(itemset_dict[r]) :
             /\ Prefix(r, k) = BruteUpTo(r, k)
             /\ \A S \in LevelSets(r, k) : Cardinality(S) = k
       /\ pc[r] \in AfterMining
             => Prefix(r, Len(itemset_dict[r]))
                  = {frequent_itemsets[r][n].itemsets :
                        n \in 1..Len(frequent_itemsets[r])}

\* C11 as stated: after every completed level k the levels 1..k hold exactly
\* the frequent itemsets of at most k items, and every candidate counted at
\* level k has all of its subsets of k-1 items in L(k-1).
C11_PrunedCandidates ==
    /\ ValidPrefix(1)
    /\ \A l \in 1..Len(itemset_dict[1]) :
          LET cand == Counted(1, l)
          IN  \A n \in 1..Len(cand) :
                  \A S \in SUBSET Labels(1, cand[n]) :
                      Cardinality(S) = l => S \in LevelSets(1, l)

\* C11 amended: after every completed level k the levels 1..k hold exactly
\* the frequent itemsets of at most k items; every candidate counted at
\* level k is an itemset of L(k-1) extended by a later item that occurs in
\* L(k-1), its other subsets of k-1 items need not be in L(k-1); and no
\* frequent itemset of k items is missing from the candidates.
C11_ValidPrefix ==
    /\ ValidPrefix(1)
    /\ \A l \in 1..Len(itemset_dict[1]) :
          LET cand == Counted(1, l)
              old  == itemset_dict[1][l]
          IN  /\ \A n \in 1..Len(cand) :
                    /\ Len(cand[n]) = l + 1
                    /\ SubSeq(cand[n], 1, l) \in Range(old)
                    /\ cand[n][l + 1] > cand[n][l]
                    /\ \E m \in 1..Len(old) : cand[n][l + 1] \in Range(old[m])
              /\ (Len(transactions[1]) >= 1 /\ InRange01(min_support[1])
                    /\ (l < Len(itemset_dict[1]) \/ pc[1] # "level"))
                 => \A S \in BruteFrequent(transactions[1], min_support[1]) :
                        Cardinality(S) = l + 1
                        => \E n \in 1..Len(cand) : Labels(1, cand[n]) = S

\* The search has completed level 2 and counted a candidate of three items
\* one of whose pairs is not in L2.
C11_Witness ==
    /\ pc[1] = "collect"
    /\ Len(itemset_dict[1]) = 2
    /\ InRange01(min_support[1])
    /\ \E n \in 1..Len(Counted(1, 2)) :
          \E S \in SUBSET Labels(1, Counted(1, 2)[n]) :
              Cardinality(S) = 2 /\ S \notin LevelSets(1, 2)

\* The size of the largest transaction.
MaxTxSize(tx) ==
    IF tx = <<>> THEN 0
    ELSE CHOOSE m \in 0..Cardinality(Items) :
            /\ \E i \in 1..Len(tx) : Cardinality(tx[i]) = m
            /\ \A i \in 1..Len(tx) : Cardinality(tx[i]) <= m

\* The number of levels of run r that hold an itemset.
NonEmptyLevels(r) ==
    IF itemset_dict[r] = <<>> \/ itemset_dict[r][1] = <<>> THEN 0
    ELSE Len(itemset_dict[r])

\* The search of run r has stopped at the first level with no surviving
\* candidate, which is at most the size of the largest transaction plus one.
StopsAtFirstEmptyLevel(r) ==
    /\ NonEmptyLevels(r) <= MaxTxSize(transactions[r])
    /\ \A l \in 2..Len(itemset_dict[r]) : itemset_dict[r][l] # <<>>
    /\ pc[r] = "collect"
          => next_level(df_onehot[r].ary, itemset_dict[r][Len(itemset_dict[r])],
                        min_support[r]) = <<>>

\* C12: for min_support in (0, 1] the level-wise search stops, at the first
\* level with no surviving candidate and no later than level (size of the
\* largest transaction) + 1; the call then runs to its return and delivers a
\* frame; before the return no result is there.
C12_Terminates ==
    /\ [](StopsAtFirstEmptyLevel(1) /\ (pc[1] # "done" <=> result[1] = NoResult))
    /\ (pc[1] = "start" /\ InRange01(min_support[1]))
          ~> (pc[1] = "done" /\ result[1].kind \in {"empty", "rules"})

\* A call that went through three levels, as many as its largest transaction
\* has items, and returned rules.
C12_Witness ==
    /\ pc[1] = "done"
    /\ InRange01(min_support[1])
    /\ NonEmptyLevels(1) = 3
    /\ MaxTxSize(transactions[1]) = 3
    /\ result[1].kind = "rules"
    /\ result[1].rows # <<>>

\* ---------------------------------------------------------------------- C13
\* The transactions the application builds from the preprocessed frame.
AppTransactions ==
    prepare_transaction_matrix(processed_df, cols_present(processed_df))

\* The rows of the preprocessed frame that come from row i of the upload.
RowsOf(i) ==
    {n \in 1..Len(processed_df.rows) : processed_df.rows[n].index = i}

\* Row i of the upload has a duration category: preprocessing keeps it.
Kept(i) ==
    bin_surgery_time(raw_df.records[i].minutes) # NaN

\* The number of interventions row i of the upload lists, and the number of
\* its cells that list any.
Listed(i) ==
    Len(Flatten(raw_df.records[i].cells))

FilledCells(i) ==
    Len(SelectSeq(raw_df.records[i].cells, LAMBDA c : c # <<>>))

DistinctColumns(S) ==
    \A x, y \in S : x # y => ColumnOf(x) # ColumnOf(y)

\* Every transaction holds labels of included columns, at most one per
\* column and so at most three.
OneItemPerColumn ==
    /\ Len(cols_present(processed_df)) <= 3
    /\ \A n \in 1..Len(AppTransactions) :
          LET t == AppTransactions[n]
          IN  /\ Len(t) <= Len(cols_present(processed_df))
              /\ \A j \in 1..Len(t) :
                    ColumnOf(t[j]) \in Range(cols_present(processed_df))
              /\ \A j, k \in 1..Len(t) :
                    j < k => ColumnOf(t[j]) # ColumnOf(t[k])

\* As many transactions as exploded rows, and they are what the analysis is
\* called with.
OneTransactionPerRow ==
    /\ Len(AppTransactions) = Len(processed_df.rows)
    /\ pc[1] # "idle"
          => input0[1] = [n \in 1..Len(AppTransactions) |->
                             Range(AppTransactions[n])]

\* A kept row of the upload that lists m >= 1 interventions has become m
\* transactions.
OneTransactionPerIntervention ==
    \A i \in 1..Len(raw_df.records) :
        (Kept(i) /\ Listed(i) >= 1) => Cardinality(RowsOf(i)) = Listed(i)

\* What the code does instead: a kept row becomes one transaction per filled
\* cell, a cell's whole text being one value, and one transaction without
\* intervention label when no cell is filled; a row without duration
\* category becomes none.
OneTransactionPerFilledCell ==
    processed_df # NoFrame =>
        \A i \in 1..Len(raw_df.records) :
            Cardinality(RowsOf(i)) =
                IF ~Kept(i) THEN 0
                ELSE IF FilledCells(i) = 0 THEN 1
                ELSE FilledCells(i)

\* No frequent itemset and no rule holds two labels of one column.
NoSameColumnTogether ==
    /\ pc[1] \in AfterMining
          => \A n \in 1..Len(frequent_itemsets[1]) :
                DistinctColumns(frequent_itemsets[1][n].itemsets)
    /\ \A n \in 1..Len(result[1].rows) :
          DistinctColumns(result[1].rows[n].antecedents
                              \cup result[1].rows[n].consequents)

\* C13: every transaction built from the preprocessed frame has at most one
\* label per included column (at most three labels); there are as many
\* transactions as exploded rows; a record with m interventions has become
\* m transactions; no frequent itemset and no rule holds two labels of one
\* column.
C13_OneItemPerColumn ==
    processed_df # NoFrame =>
        /\ OneItemPerColumn
        /\ OneTransactionPerRow
        /\ OneTransactionPerIntervention
        /\ NoSameColumnTogether

====
